---- MODULE Spec2Model ----
(***************************************************************************)
(* Model of the simulation block of streamlit_app.py: the agent-based      *)
(* technology adoption run that starts when "Run Simulation" is pressed.   *)
(*                                                                         *)
(* Real quantities are kept exact as integers:                             *)
(*   - p, q and the uniform draws of np.random.rand() are in thousandths,  *)
(*     so that  draw < p + q * (current_adopters / population_size)        *)
(*     is       draw * N < p * N + q * current_adopters ;                  *)
(*   - market_penetration is the rational <<numerator, denominator>>.      *)
(* The sidebar lets population_size range over 500..5000 and time_periods  *)
(* over 12..60; the model runs the same code on populations and horizons   *)
(* bounded by MaxPopulation and MaxPeriods.                                *)
(***************************************************************************)
EXTENDS Integers, FiniteSets, Sequences, TLC

VARIABLES population_size, income_threshold, p, q, time_periods,
          incomes, can_afford, has_adopted, initial_adopters,
          adoption_timeline, t, current_adopters, potential_adopters_idx,
          remaining, rand, total_addressable_market, final_adopters,
          market_penetration, error, pc

vars == <<population_size, income_threshold, p, q, time_periods,
          incomes, can_afford, has_adopted, initial_adopters,
          adoption_timeline, t, current_adopters, potential_adopters_idx,
          remaining, rand, total_addressable_market, final_adopters,
          market_penetration, error, pc>>

config == <<population_size, income_threshold, p, q, time_periods>>

report == <<total_addressable_market, final_adopters, market_penetration>>

(* ------------------------------ bounds --------------------------------- *)
MaxPopulation == 12

MaxPeriods == 3

(* ------------------------------ inputs --------------------------------- *)
Populations == (MaxPopulation - 1)..MaxPopulation

Periods == 1..MaxPeriods

\* income_threshold slider: 5000..30000 in steps of 1000
Thresholds == {15000, 30000}

\* values of np.random.pareto(1/gini) * 20000 on either side of 15000
IncomeLevels == {10000, 20000}

\* p slider (0.0..0.1 step 0.005), in thousandths
PValues == {0, 100}

\* q slider (0.1..0.8 step 0.01), in thousandths
QValues == {450}

\* results of np.random.rand(), in [0, 1), in thousandths
Draws == {0, 400, 999}

(* ------------------------------ helpers -------------------------------- *)
Agents(N) == 0..(N - 1)

NoArray == [i \in {} |-> FALSE]

\* np.zeros(population_size, dtype=bool)
zeros(N) == [i \in Agents(N) |-> FALSE]

\* np.where(mask)[0]
where(mask) == {i \in DOMAIN mask : mask[i]}

np_sum_len(b) == Cardinality(DOMAIN b)

\* np.sum(mask) of a boolean array
np_sum(b) == Cardinality({i \in DOMAIN b : b[i]})

initial_size_min(N) == IF 10 < N \div 100 THEN 10 ELSE N \div 100

\* max(10, population_size//100)
initial_size(N) == IF 10 > N \div 100 THEN 10 ELSE N \div 100

\* np.random.choice(a, size=size, replace=False): the possible samples;
\* numpy raises ValueError when size exceeds the number of elements of a
choice(a, size) == {S \in SUBSET a : Cardinality(S) = size}

choice_raises(a, size) == Cardinality(a) < size

\* has_adopted[initial_adopters] = True
set_true(h, S) == [i \in DOMAIN h |-> h[i] \/ i \in S]

potential_ignoring_income(h, c) == {i \in DOMAIN h : ~h[i]}

\* np.where(~has_adopted & can_afford)[0]
potential(h, c) == {i \in DOMAIN h : ~h[i] /\ c[i]}

adopts_live(d, N, pp, qq, cur, h) == d * N < pp * N + qq * np_sum(h)

\* np.random.rand() < p + q * (current_adopters / population_size);
\* h is the adoption state at the time of the draw, which the code does not read
adopts(d, N, pp, qq, cur, h) == d * N < pp * N + qq * cur

adopt_overwrite(h, idx) == [i \in DOMAIN h |-> i = idx]

\* has_adopted[idx] = True
adopt(h, idx) == [h EXCEPT ![idx] = TRUE]

in_range_inclusive(k, T) == k <= T

\* for t in range(time_periods)
in_range(k, T) == k < T

\* (final_adopters / total_addressable_market) * 100
\*     if total_addressable_market > 0 else 0
penetration(final, total) == IF total > 0 THEN <<final * 100, total>> ELSE <<0, 1>>

(* ------------------------------- Init ---------------------------------- *)
Init ==
    /\ population_size \in Populations
    /\ income_threshold \in Thresholds
    /\ p \in PValues
    /\ q \in QValues
    /\ time_periods \in Periods
    /\ incomes = NoArray
    /\ can_afford = NoArray
    /\ has_adopted = NoArray
    /\ initial_adopters = {}
    /\ adoption_timeline = <<>>
    /\ t = 0
    /\ current_adopters = 0
    /\ potential_adopters_idx = {}
    /\ remaining = {}
    /\ rand = NoArray
    /\ total_addressable_market = 0
    /\ final_adopters = 0
    /\ market_penetration = <<0, 1>>
    /\ error = "none"
    /\ pc = "start"

(* ------------------------------ actions -------------------------------- *)
\* lines 32-36: draw the incomes, compute the affordability mask
SampleIncomes ==
    /\ pc = "start"
    /\ \E inc \in [Agents(population_size) -> IncomeLevels] :
          /\ incomes' = inc
          /\ can_afford' = [i \in Agents(population_size) |-> inc[i] >= income_threshold]
    /\ pc' = "init"
    /\ UNCHANGED <<config, has_adopted, initial_adopters, adoption_timeline, t,
                   current_adopters, potential_adopters_idx, remaining, rand,
                   report, error>>

\* lines 37-40: seed the initial adopters among the agents that can afford
SeedInitialAdopters ==
    /\ pc = "init"
    /\ ~choice_raises(where(can_afford), initial_size(population_size))
    /\ \E S \in choice(where(can_afford), initial_size(population_size)) :
          /\ initial_adopters' = S
          /\ has_adopted' = set_true(zeros(population_size), S)
    /\ adoption_timeline' = <<>>
    /\ pc' = "loop"
    /\ UNCHANGED <<config, incomes, can_afford, t, current_adopters,
                   potential_adopters_idx, remaining, rand, report, error>>

\* lines 37-38: np.random.choice raises, the script run ends there
SeedRaises ==
    /\ pc = "init"
    /\ choice_raises(where(can_afford), initial_size(population_size))
    /\ has_adopted' = zeros(population_size)
    /\ error' = "ValueError"
    /\ pc' = "failed"
    /\ UNCHANGED <<config, incomes, can_afford, initial_adopters,
                   adoption_timeline, t, current_adopters,
                   potential_adopters_idx, remaining, rand, report>>

\* lines 43-46: head of one period
StepBegin ==
    /\ pc = "loop"
    /\ in_range(t, time_periods)
    /\ current_adopters' = np_sum(has_adopted)
    /\ adoption_timeline' = Append(adoption_timeline, np_sum(has_adopted))
    /\ potential_adopters_idx' = potential(has_adopted, can_afford)
    /\ remaining' = potential(has_adopted, can_afford)
    /\ rand' = NoArray
    /\ pc' = "update"
    /\ UNCHANGED <<config, incomes, can_afford, has_adopted, initial_adopters,
                   t, report, error>>

\* lines 47-50: one iteration of the loop over potential_adopters_idx.
\* The code visits the indices in ascending order; the model lets the loop
\* visit them in any order, the ascending one included.
AgentUpdate ==
    /\ pc = "update"
    /\ \E idx \in remaining, d \in Draws :
          /\ has_adopted' =
                IF adopts(d, population_size, p, q, current_adopters, has_adopted)
                THEN adopt(has_adopted, idx)
                ELSE has_adopted
          /\ rand' = (idx :> d) @@ rand
          /\ remaining' = remaining \ {idx}
    /\ UNCHANGED <<config, incomes, can_afford, initial_adopters,
                   adoption_timeline, t, current_adopters,
                   potential_adopters_idx, report, error, pc>>

\* line 43: the inner loop is exhausted, next t
StepEnd ==
    /\ pc = "update"
    /\ remaining = {}
    /\ t' = t + 1
    /\ pc' = "loop"
    /\ UNCHANGED <<config, incomes, can_afford, has_adopted, initial_adopters,
                   adoption_timeline, current_adopters, potential_adopters_idx,
                   remaining, rand, report, error>>

\* lines 82-84: the metrics of the report
Report ==
    /\ pc = "loop"
    /\ ~in_range(t, time_periods)
    /\ total_addressable_market' = np_sum(can_afford)
    /\ final_adopters' = adoption_timeline[Len(adoption_timeline)]
    /\ market_penetration' =
          penetration(adoption_timeline[Len(adoption_timeline)], np_sum(can_afford))
    /\ pc' = "done"
    /\ UNCHANGED <<config, incomes, can_afford, has_adopted, initial_adopters,
                   adoption_timeline, t, current_adopters,
                   potential_adopters_idx, remaining, rand, error>>

Next ==
    \/ SampleIncomes
    \/ SeedInitialAdopters
    \/ SeedRaises
    \/ StepBegin
    \/ AgentUpdate
    \/ StepEnd
    \/ Report

Spec == Init /\ [][Next]_vars

(* --------------------------- claim helpers ----------------------------- *)
Adopted == {i \in DOMAIN has_adopted : has_adopted[i]}

Affordable == {i \in DOMAIN can_afford : can_afford[i]}

RequiredInitial == IF population_size \div 100 > 10 THEN population_size \div 100 ELSE 10

Started == pc \in {"loop", "update", "done"}

Ended == pc \in {"done", "failed"}

\* the adopters at the start of the period whose snapshot is the last entry
\* of the timeline: the agents of potential_adopters_idx were not adopted then
AdoptedAtLastSnapshot == Adopted \ potential_adopters_idx

(* ------------------------------- claims -------------------------------- *)
\* C1: in every state of a run, seeding and every single flip included,
\* an adopted agent is an agent that can afford.
C1_AdoptedImpliesAffordable ==
    \A i \in DOMAIN has_adopted : has_adopted[i] => (i \in DOMAIN can_afford /\ can_afford[i])

\* an agent adopted by a step update while some agent is below the threshold
C1_Witness ==
    /\ pc = "update"
    /\ Adopted \ initial_adopters # {}
    /\ Affordable # DOMAIN can_afford

\* C2 (as claimed): a run whose addressable market is smaller than the
\* required initial-adopter count fails with an explicit InsufficientMarket
\* error, before any adoption state is mutated and without a timeline.
C2_FailsWithInsufficientMarket ==
    (pc \notin {"start", "init"} /\ Cardinality(Affordable) < RequiredInitial)
        => /\ pc = "failed"
           /\ error = "InsufficientMarket"
           /\ Adopted = {}
           /\ adoption_timeline = <<>>

\* C3: the step loop runs exactly time_periods iterations, never leaves
\* early, and the completed timeline has length time_periods.
C3_ExactlyTimePeriodsIterations ==
    /\ Started => t <= time_periods
    /\ pc = "loop" => Len(adoption_timeline) = t
    /\ pc = "update" => (t < time_periods /\ Len(adoption_timeline) = t + 1)
    /\ pc = "done" => (t = time_periods /\ Len(adoption_timeline) = time_periods)

\* a period that starts although every affordable agent has adopted
C3_Witness ==
    /\ pc = "done"
    /\ time_periods >= 2
    /\ adoption_timeline[time_periods - 1] = Cardinality(Affordable)
    /\ adoption_timeline[time_periods - 1] > adoption_timeline[1]

\* C4: the adoption timeline is non-decreasing.
C4_TimelineNonDecreasing ==
    \A k \in 1..(Len(adoption_timeline) - 1) : adoption_timeline[k] <= adoption_timeline[k + 1]

C4_Witness ==
    /\ pc = "done"
    /\ Len(adoption_timeline) >= 3
    /\ adoption_timeline[1] < adoption_timeline[2]
    /\ adoption_timeline[2] < adoption_timeline[3]

\* C5: each timeline entry is the number of adopters at the start of its
\* period, before the updates of the period; the first entry is the
\* initial-adopter count max(10, population_size // 100).
C5_TimelineIsPreUpdateSnapshot ==
    Len(adoption_timeline) >= 1 =>
        /\ adoption_timeline[1] = RequiredInitial
        /\ adoption_timeline[Len(adoption_timeline)] = Cardinality(AdoptedAtLastSnapshot)

\* a snapshot that differs from the number of adopters after the updates
C5_Witness ==
    /\ pc = "loop"
    /\ Len(adoption_timeline) >= 2
    /\ adoption_timeline[Len(adoption_timeline)] > RequiredInitial
    /\ adoption_timeline[Len(adoption_timeline)] < Cardinality(Adopted)

\* C6 (as claimed): a run with an empty addressable market reports
\* market_penetration = 0.
C6_EmptyMarketReportsZero ==
    (Ended /\ Affordable = {}) => (pc = "done" /\ market_penetration[1] = 0)

\* C7 (as claimed): with time_periods = 1 the timeline is the single entry
\* of the initial-adopter count and the final adoption state is exactly the
\* initial-adopter set.
C7_OnePeriodNoUpdates ==
    (pc = "done" /\ time_periods = 1) =>
        /\ Len(adoption_timeline) = 1
        /\ adoption_timeline[1] = RequiredInitial
        /\ Adopted = initial_adopters

\* C7 (amended): with time_periods = 1 the timeline is the single entry of
\* the initial-adopter count; the updates of that period are applied after
\* the entry is recorded, so the final adoption state contains the
\* initial-adopter set and possibly more affordable agents.
C7_OnePeriodSnapshotOnly ==
    (pc = "done" /\ time_periods = 1) =>
        /\ Len(adoption_timeline) = 1
        /\ adoption_timeline[1] = RequiredInitial
        /\ adoption_timeline[1] = Cardinality(initial_adopters)
        /\ initial_adopters \subseteq Adopted
        /\ Adopted \subseteq Affordable

C7_Witness ==
    /\ pc = "done"
    /\ time_periods = 1
    /\ Adopted # initial_adopters

\* C8: within one period an eligible agent adopts exactly when its draw is
\* below p + q * f, f the adoption fraction at the start of the period;
\* whatever the order of the visits, the agents adopted in the period are
\* those the draws and the start fraction determine.
C8_StepUsesStartFraction ==
    pc = "update" =>
        \A i \in potential_adopters_idx \ remaining :
            has_adopted[i] <=>
                (rand[i] * population_size
                    < p * population_size
                      + q * (Cardinality(Adopted \ potential_adopters_idx)))

\* two eligible agents visited, the first adopted, the draw of the second
\* falls between the start fraction and the updated one
C8_Witness ==
    /\ pc = "update"
    /\ remaining = {}
    /\ \E i, j \in potential_adopters_idx :
          /\ has_adopted[i]
          /\ ~has_adopted[j]
          /\ rand[j] * population_size
                < p * population_size + q * (Cardinality(Adopted \ potential_adopters_idx) + 1)

\* C9 (as claimed): the reported final adopter count is the number of
\* agents adopted in the final adoption state.
C9_FinalAdoptersIsFinalState ==
    pc = "done" => final_adopters = Cardinality(Adopted)

\* C10: in every transition an adopted agent stays adopted.
C10_AdoptedIsTerminal ==
    [][\A i \in DOMAIN has_adopted :
          has_adopted[i] => (i \in DOMAIN has_adopted' /\ has_adopted'[i])]_vars

\* agents adopted in an earlier period are still adopted at the end
C10_Witness ==
    /\ pc = "done"
    /\ time_periods >= 2
    /\ adoption_timeline[2] > adoption_timeline[1]
    /\ Cardinality(Adopted) > adoption_timeline[2]

====
